---- MODULE Spec2Model ----
(***************************************************************************)
(* Model of auto-scout.js: the aggregation / dedup / summarize / merge     *)
(* pipeline that maintains content/articles.json.                          *)
(*                                                                         *)
(* Strings are sequences of one-character strings, so that the string      *)
(* conversions of the code (toLowerCase, trim, the trailing-slash regex,   *)
(* String, parseInt) are computed character by character.                  *)
(***************************************************************************)
EXTENDS Integers, Sequences, FiniteSets, TLC

(***************************************************************************)
(* Program constants (auto-scout.js:33-34) and the bounds of the model.    *)
(***************************************************************************)
MAX_PER_SOURCE == 2
MAX_ARTICLES_PER_BATCH == 10

\* number of pipeline invocations in one behaviour
MaxRuns == 2
\* longest array the summarization service (or --articles=) supplies
MaxReply == 2
\* longest corpus handed to isDuplicate when it is checked on its own
MaxExisting == 2
\* longest candidate list handed to summarizeWithClaude on its own
MaxItems == 11

(***************************************************************************)
(* JavaScript values.  undefined is a one-element sequence whose element   *)
(* is no character, so it is comparable with every string of the model.    *)
(***************************************************************************)
Undefined == <<"undefined">>
EmptyString == <<>>

IsString(v) == v # Undefined

(***************************************************************************)
(* String.prototype methods used by isDuplicate.                           *)
(***************************************************************************)
LowerChar(c) ==
    CASE c = "A" -> "a"
      [] c = "B" -> "b"
      [] c = "T" -> "t"
      [] c = "U" -> "u"
      [] OTHER -> c

toLowerCase(s) == [i \in 1..Len(s) |-> LowerChar(s[i])]

IsWhite(c) == c = " "

RECURSIVE TrimStart(_)
TrimStart(s) ==
    IF s # <<>> /\ IsWhite(Head(s)) THEN TrimStart(Tail(s)) ELSE s

RECURSIVE TrimEnd(_)
TrimEnd(s) ==
    IF s # <<>> /\ IsWhite(s[Len(s)]) THEN TrimEnd(SubSeq(s, 1, Len(s) - 1)) ELSE s

trim(s) == TrimEnd(TrimStart(s))

\* s.replace(/\/+$/, ""): the regex matches the maximal run of "/" that ends
\* the string, which is removed.
RECURSIVE StripTrailingSlashes(_)
StripTrailingSlashes(s) ==
    IF s # <<>> /\ s[Len(s)] = "/"
    THEN StripTrailingSlashes(SubSeq(s, 1, Len(s) - 1))
    ELSE s

\* v || ""
OrEmpty(v) == IF v = Undefined \/ v = EmptyString THEN EmptyString ELSE v

\* a faulty variant of NormalizeUrl: strips one trailing slash only
MutNormalizeUrlOneSlash(url) ==
    toLowerCase(IF url # <<>> /\ url[Len(url)] = "/"
                THEN SubSeq(url, 1, Len(url) - 1) ELSE url)
\* url.replace(/\/+$/, "").toLowerCase()
NormalizeUrl(url) == toLowerCase(StripTrailingSlashes(url))

\* title.toLowerCase().trim()
NormalizeTitle(title) == trim(toLowerCase(title))

\* a method call on undefined throws a TypeError
\* a faulty variant of DupThrows: a title that is no string is tolerated
MutDupThrowsOnUrlOnly(url, title) == ~IsString(url)
\* url.replace(...) and title.toLowerCase() throw a TypeError on undefined
DupThrows(url, title) == ~IsString(url) \/ ~IsString(title)

(***************************************************************************)
(* isDuplicate(existing, url, title): Array.prototype.some over the        *)
(* corpus, left to right.  Only meaningful when ~DupThrows(url, title).    *)
(***************************************************************************)
EntryMatches(a, normalizedUrl, normalizedTitle) ==
    LET existingUrl   == NormalizeUrl(OrEmpty(a.sourceUrl))
        existingTitle == NormalizeTitle(OrEmpty(a.title))
    IN  existingUrl = normalizedUrl \/ existingTitle = normalizedTitle

RECURSIVE Some(_, _, _)
Some(existing, normalizedUrl, normalizedTitle) ==
    IF existing = <<>> THEN FALSE
    ELSE IF EntryMatches(Head(existing), normalizedUrl, normalizedTitle) THEN TRUE
    ELSE Some(Tail(existing), normalizedUrl, normalizedTitle)

isDuplicate(existing, url, title) ==
    Some(existing, NormalizeUrl(url), NormalizeTitle(title))

(***************************************************************************)
(* String(n) and parseInt(s, 10) for the ids.                              *)
(***************************************************************************)
Digits == <<"0", "1", "2", "3", "4", "5", "6", "7", "8", "9">>
IsDigit(c) == \E d \in 1..10 : Digits[d] = c
DigitValue(c) == (CHOOSE d \in 1..10 : Digits[d] = c) - 1

RECURSIVE String(_)
String(n) ==
    IF n < 10 THEN <<Digits[n + 1]>>
    ELSE Append(String(n \div 10), Digits[(n % 10) + 1])

\* value of the longest prefix of decimal digits, acc being the value so far
RECURSIVE ParseDigits(_, _)
ParseDigits(s, acc) ==
    IF s # <<>> /\ IsDigit(Head(s))
    THEN ParseDigits(Tail(s), acc * 10 + DigitValue(Head(s)))
    ELSE acc

\* parseInt(s, 10) || 0: NaN (no leading digit, or undefined) and 0 both give 0.
\* The ids of the model carry no sign and no leading white space.
ParseIntOrZero(s) ==
    IF s = <<>> \/ ~IsDigit(Head(s)) THEN 0 ELSE ParseDigits(s, 0)

Max(a, b) == IF a >= b THEN a ELSE b

\* existing.reduce((max, a) => Math.max(max, parseInt(a.id, 10) || 0), 0)
RECURSIVE Reduce(_, _)
Reduce(existing, max) ==
    IF existing = <<>> THEN max
    ELSE Reduce(Tail(existing), Max(max, ParseIntOrZero(Head(existing).id)))

\* a faulty variant of MaxIdOf: the number of entries
MutMaxIdOfLength(existing) == Len(existing)
\* a faulty variant of MaxIdOf: the reduction starts from 1
MutMaxIdOfStartsAtOne(existing) == Reduce(existing, 1)
\* existing.reduce((max, a) => Math.max(max, parseInt(a.id) || 0), 0)
MaxIdOf(existing) == Reduce(existing, 0)

(***************************************************************************)
(* Array helpers.                                                          *)
(***************************************************************************)
Min(a, b) == IF a <= b THEN a ELSE b

\* arr.slice(0, n)
Slice(arr, n) == SubSeq(arr, 1, Min(Len(arr), n))

\* results.flat(): concatenation of the five per-source arrays in index order
RECURSIVE FlatFrom(_, _)
FlatFrom(results, i) ==
    IF i > Len(results) THEN <<>> ELSE results[i] \o FlatFrom(results, i + 1)

Flat(results) == FlatFrom(results, 1)

\* a faulty variant of FilterNew: the pre-filter compares links only
RECURSIVE MutFilterNewByLinkOnly(_, _)
MutFilterNewByLinkOnly(existing, items) ==
    IF items = <<>> THEN <<>>
    ELSE LET item == Head(items)
             rest == MutFilterNewByLinkOnly(existing, Tail(items))
         IN  IF ~\E i \in 1..Len(existing) :
                    NormalizeUrl(OrEmpty(existing[i].sourceUrl)) = NormalizeUrl(item.link)
             THEN <<item>> \o rest ELSE rest

\* arr.filter(keep)
RECURSIVE FilterNew(_, _)
FilterNew(existing, items) ==
    IF items = <<>> THEN <<>>
    ELSE LET item == Head(items)
             rest == FilterNew(existing, Tail(items))
         IN  IF ~isDuplicate(existing, item.link, item.title)
             THEN <<item>> \o rest ELSE rest

(***************************************************************************)
(* The strings of the model.                                               *)
(***************************************************************************)
TitleT   == <<"t">>
TitleTsp == <<"T", " ">>
TitleU   == <<"u">>
TitleV   == <<"v">>
TitleW   == <<"w">>
TitleTS  == <<"t", " ", "-", " ", "s">>
UrlA     == <<"a">>
UrlAsl   == <<"A", "/">>
UrlB     == <<"b">>
UrlC     == <<"c">>
UrlD     == <<"d">>

(***************************************************************************)
(* The persisted document content/articles.json: a JSON array of article   *)
(* entries, or a document that cannot be read or parsed.  An entry carries *)
(* id, title, sourceUrl and publishDate; summary, bottomLine and category  *)
(* are copied without being read and are left out.                         *)
(***************************************************************************)
\* the day of the runs, as hebrewDate() formats it, and a day before it
hebrewDate == "today"
Earlier == "earlier"

\* an entry stored before the runs
Entry(id, title, sourceUrl) ==
    [id |-> id, title |-> title, sourceUrl |-> sourceUrl, publishDate |-> Earlier]

NoDoc == [ok |-> FALSE, doc |-> <<>>]
Doc(corpus) == [ok |-> TRUE, doc |-> corpus]

\* JSON.stringify(existing, null, 2) + "\n": the document holding the array
Stringify(existing) == Doc(existing)

\* JSON.parse(readFileSync(CONTENT_PATH)) in a try, [] in the catch
loadExisting(file) == IF file.ok THEN file.doc ELSE <<>>

InitDocs ==
    { NoDoc,
      Doc(<<Entry(String(1), TitleT, UrlA)>>),
      Doc(<<Entry(String(3), TitleV, UrlD), Entry(String(9), TitleW, UrlC)>>) }

(***************************************************************************)
(* Candidate items and the five source adapters.  A candidate carries      *)
(* title, link and origin; source and pubDate are only logged and put in   *)
(* the prompt.  What an external source serves is given by the world:      *)
(*   rss[i]   the items parseRSSItems extracts from feed i (1..3),         *)
(*   idlist   esearchresult.idlist of the PubMed search,                   *)
(*   result   the PubMed summary: id -> title, Undefined for no record,    *)
(*   works    data.results of OpenAlex: records with title, doi and id.    *)
(***************************************************************************)
Candidate(title, link, origin) == [title |-> title, link |-> link, origin |-> origin]
RawItem(title, link) == [title |-> title, link |-> link]
Work(title, doi, id) == [title |-> title, doi |-> doi, id |-> id]

Untitled == <<"n">>
Separator == <<" ", "-", " ">>

\* v || w
OrElse(v, w) == IF v = Undefined \/ v = EmptyString THEN w ELSE v

\* s.split(" - "): cur is the part being read
RECURSIVE Split(_, _)
Split(rest, cur) ==
    IF rest = <<>> THEN <<cur>>
    ELSE IF Len(rest) >= 3 /\ SubSeq(rest, 1, 3) = Separator
    THEN <<cur>> \o Split(SubSeq(rest, 4, Len(rest)), <<>>)
    ELSE Split(Tail(rest), Append(cur, Head(rest)))

\* parts.join(" - ")
RECURSIVE Join(_)
Join(parts) ==
    IF parts = <<>> THEN <<>>
    ELSE IF Len(parts) = 1 THEN parts[1]
    ELSE parts[1] \o Separator \o Join(Tail(parts))

\* the title of a Google News item without its trailing " - <publisher>"
GoogleTitle(itemTitle) ==
    LET titleParts == Split(itemTitle, <<>>)
        title == OrElse(Join(SubSeq(titleParts, 1, Len(titleParts) - 1)), itemTitle)
    IN  trim(title)

MapGoogle(items) ==
    [k \in 1..Len(items) |->
        Candidate(GoogleTitle(items[k].title), items[k].link, "google-news")]

MapRss(items, origin) ==
    [k \in 1..Len(items) |-> Candidate(items[k].title, items[k].link, origin)]

fetchGoogleNews(w) == MapGoogle(Slice(w.rss[1], MAX_PER_SOURCE))
fetchScienceDaily(w) == MapRss(Slice(w.rss[2], MAX_PER_SOURCE), "sciencedaily")
fetchMedicalNewsToday(w) == MapRss(Slice(w.rss[3], MAX_PER_SOURCE), "medicalnewstoday")

\* the loop of fetchPubMed over ids.slice(0, MAX_PER_SOURCE)
RECURSIVE PubMedItems(_, _)
PubMedItems(ids, result) ==
    IF ids = <<>> THEN <<>>
    ELSE LET id == Head(ids)
             rest == PubMedItems(Tail(ids), result)
         IN  IF result[id] = Undefined THEN rest
             ELSE <<Candidate(OrElse(result[id], Untitled), <<"p", id, "/">>, "pubmed")>>
                  \o rest

fetchPubMed(w) == PubMedItems(Slice(w.idlist, MAX_PER_SOURCE), w.result)

MapOpenAlex(works) ==
    [k \in 1..Len(works) |->
        Candidate(OrElse(works[k].title, Untitled),
                  OrElse(works[k].doi, OrElse(works[k].id, EmptyString)),
                  "openalex")]

\* a faulty variant of fetchOpenAlex: the slice is forgotten
MutFetchOpenAlexUnsliced(w) == MapOpenAlex(w.works)
fetchOpenAlex(w) == MapOpenAlex(Slice(w.works, MAX_PER_SOURCE))

Sources == 1..5
PubMed == 4

\* what source i returns when none of its calls fails
AdapterItems(i, w) ==
    CASE i = 1 -> fetchGoogleNews(w)
      [] i = 2 -> fetchScienceDaily(w)
      [] i = 3 -> fetchMedicalNewsToday(w)
      [] i = 4 -> fetchPubMed(w)
      [] i = 5 -> fetchOpenAlex(w)

PubMedIds == {"1", "2", "3"}

WorldRich ==
    [ rss    |-> << <<RawItem(TitleTS, UrlA), RawItem(TitleU, UrlB), RawItem(TitleV, UrlC)>>,
                    <<RawItem(TitleTsp, UrlAsl), RawItem(TitleV, UrlC)>>,
                    <<RawItem(TitleU, UrlD), RawItem(TitleV, UrlD), RawItem(TitleT, UrlB)>> >>,
      idlist |-> <<"1", "2", "3">>,
      result |-> [id \in PubMedIds |-> IF id = "1" THEN TitleT ELSE EmptyString],
      works  |-> <<Work(TitleU, UrlC, UrlD), Work(Undefined, Undefined, UrlB),
                   Work(TitleT, UrlA, UrlA)>> ]

WorldQuiet ==
    [ rss    |-> << <<>>, <<RawItem(TitleU, UrlB)>>, <<>> >>,
      idlist |-> <<>>,
      result |-> [id \in PubMedIds |-> Undefined],
      works  |-> <<Work(TitleTsp, Undefined, Undefined)>> ]

WorldPair ==
    [ rss    |-> << <<RawItem(TitleV, UrlA)>>, <<RawItem(TitleW, UrlB)>>, <<>> >>,
      idlist |-> <<"2", "1">>,
      result |-> [id \in PubMedIds |-> Undefined],
      works  |-> <<>> ]

Worlds == {WorldRich, WorldQuiet, WorldPair}

(***************************************************************************)
(* JSON texts.  A text is a sequence of tokens: "[", "]", ",", a record    *)
(* (a JSON object, with its title and sourceUrl) or "p" (any other text).  *)
(***************************************************************************)
Article(title, sourceUrl) == [title |-> title, sourceUrl |-> sourceUrl]
NoRecord == Article(Undefined, Undefined)

Tok(k) == [k |-> k, r |-> NoRecord]
RecTok(r) == [k |-> "rec", r |-> r]

RECURSIVE ElementsText(_)
ElementsText(arr) ==
    IF arr = <<>> THEN <<>>
    ELSE IF Len(arr) = 1 THEN <<RecTok(arr[1])>>
    ELSE <<RecTok(arr[1]), Tok(",")>> \o ElementsText(Tail(arr))

\* the JSON text of an array of records
ArrayText(arr) == <<Tok("[")>> \o ElementsText(arr) \o <<Tok("]")>>

\* JSON.parse of the tokens between "[" and "]": records separated by ","
RECURSIVE ParseElements(_, _, _)
ParseElements(rest, acc, wantRecord) ==
    IF rest = <<>>
    THEN IF wantRecord /\ acc # <<>> THEN [ok |-> FALSE, value |-> <<>>]
         ELSE [ok |-> TRUE, value |-> acc]
    ELSE IF wantRecord
    THEN IF Head(rest).k = "rec"
         THEN ParseElements(Tail(rest), Append(acc, Head(rest).r), FALSE)
         ELSE [ok |-> FALSE, value |-> <<>>]
    ELSE IF Head(rest).k = ","
         THEN ParseElements(Tail(rest), acc, TRUE)
         ELSE [ok |-> FALSE, value |-> <<>>]

\* JSON.parse(text) for a text that should hold one array
JSONparse(text) ==
    IF Len(text) >= 2 /\ text[1].k = "[" /\ text[Len(text)].k = "]"
    THEN ParseElements(SubSeq(text, 2, Len(text) - 1), <<>>, TRUE)
    ELSE [ok |-> FALSE, value |-> <<>>]

\* text.match(/\[[\s\S]*\]/): from the first "[" to the last "]" after it
Positions(text, k) == {i \in 1..Len(text) : text[i].k = k}
SetMin(S) == CHOOSE x \in S : \A y \in S : x <= y
SetMax(S) == CHOOSE x \in S : \A y \in S : x >= y

MatchArray(text) ==
    LET opens == Positions(text, "[")
        closes == Positions(text, "]")
    IN  IF opens = {} \/ closes = {} \/ SetMax(closes) < SetMin(opens)
        THEN [found |-> FALSE, text |-> <<>>]
        ELSE [found |-> TRUE, text |-> SubSeq(text, SetMin(opens), SetMax(closes))]

(***************************************************************************)
(* The reply of the summarization service, as summarizeWithClaude sees it: *)
(* the fetch rejects ("network"), or resolves to a response with res.ok,   *)
(* data.stop_reason and data.content[0].text (hasText: content[0] exists). *)
(***************************************************************************)
Response(kind, ok, hasText, stop, text) ==
    [kind |-> kind, ok |-> ok, hasText |-> hasText, stop_reason |-> stop, text |-> text]
NoResponse == Response("none", FALSE, FALSE, "none", <<>>)

\* a faulty variant of Validate: no check of stop_reason
MutValidateIgnoreTruncation(r) ==
    IF r.kind = "network" THEN [error |-> "network", value |-> <<>>]
    ELSE IF ~r.ok THEN [error |-> "api_error", value |-> <<>>]
    ELSE IF ~r.hasText THEN [error |-> "type_error", value |-> <<>>]
    ELSE IF ~MatchArray(r.text).found THEN [error |-> "no_array", value |-> <<>>]
    ELSE IF ~JSONparse(MatchArray(r.text).text).ok
    THEN [error |-> "parse_failed", value |-> <<>>]
    ELSE [error |-> "none", value |-> JSONparse(MatchArray(r.text).text).value]
\* the validation of summarizeWithClaude after the request (lines 240-265):
\* the error it throws ("none" for none) and the array it returns
Validate(r) ==
    IF r.kind = "network" THEN [error |-> "network", value |-> <<>>]
    ELSE IF ~r.ok THEN [error |-> "api_error", value |-> <<>>]
    ELSE IF ~r.hasText THEN [error |-> "type_error", value |-> <<>>]
    ELSE IF r.stop_reason = "max_tokens" THEN [error |-> "truncated", value |-> <<>>]
    ELSE IF ~MatchArray(r.text).found THEN [error |-> "no_array", value |-> <<>>]
    ELSE IF ~JSONparse(MatchArray(r.text).text).ok
    THEN [error |-> "parse_failed", value |-> <<>>]
    ELSE [error |-> "none", value |-> JSONparse(MatchArray(r.text).text).value]

(***************************************************************************)
(* The inputs of the model: the records a JSON array may hold, the arrays, *)
(* the replies of the service and the --articles= arguments.               *)
(***************************************************************************)
RecPool ==
    { Article(TitleT, UrlA), Article(TitleTsp, UrlB), Article(TitleU, UrlB),
      Article(Undefined, UrlA) }

RECURSIVE Arrays(_)
Arrays(n) ==
    IF n = 0 THEN {<<>>}
    ELSE Arrays(n - 1) \cup {Append(a, r) : a \in {b \in Arrays(n - 1) : Len(b) = n - 1}, r \in RecPool}

Prose == Tok("p")
Wrapped(text) == <<Prose>> \o text \o <<Prose>>

BadTexts ==
    { <<Prose>>,
      <<Tok("["), RecTok(Article(TitleT, UrlA))>>,
      <<Tok("]"), Prose, Tok("[")>>,
      <<Tok("["), RecTok(Article(TitleT, UrlA)), RecTok(Article(TitleU, UrlB)), Tok("]")>>,
      <<Tok("["), RecTok(Article(TitleT, UrlA)), Tok(","), Tok("]")>>,
      <<Tok("["), Prose, Tok("]")>>,
      <<Prose, Tok("["), RecTok(Article(TitleU, UrlB)), Tok("]"), Prose, Tok("]")>> }

Responses ==
    { Response("network", FALSE, FALSE, "none", <<>>),
      Response("http", FALSE, FALSE, "none", <<>>),
      Response("http", TRUE, FALSE, "end_turn", <<>>),
      Response("http", TRUE, TRUE, "max_tokens", ArrayText(<<Article(TitleU, UrlB)>>)),
      Response("http", TRUE, TRUE, "max_tokens", <<Tok("["), RecTok(Article(TitleT, UrlA))>>) }
    \cup {Response("http", TRUE, TRUE, "end_turn", ArrayText(a)) : a \in Arrays(MaxReply)}
    \cup {Response("http", TRUE, TRUE, "end_turn", Wrapped(ArrayText(a))) : a \in Arrays(1)}
    \cup {Response("http", TRUE, TRUE, "end_turn", t) : t \in BadTexts}

\* process.argv: --auto, --apply and the text after --articles= (NoArg: absent)
NoArg == <<Tok("absent")>>
Args(auto, apply, json) == [auto |-> auto, apply |-> apply, articlesJson |-> json]
ArgsPool ==
    { Args(auto, FALSE, NoArg) : auto \in BOOLEAN }
    \cup { Args(FALSE, TRUE, NoArg) }
    \cup { Args(FALSE, TRUE, ArrayText(a)) : a \in Arrays(MaxReply) }
    \cup { Args(TRUE, TRUE, ArrayText(<<Article(TitleU, UrlB)>>)),
           Args(FALSE, TRUE, <<Tok("["), Prose>>),
           Args(FALSE, FALSE, ArrayText(<<Article(TitleU, UrlB)>>)) }

(***************************************************************************)
(* State.  file is the persisted document and world what the external      *)
(* sources serve; every other variable belongs to one invocation p of the  *)
(* script (a process): its position pc, its arguments and environment, and *)
(* the locals of main and summarizeWithClaude.                             *)
(***************************************************************************)
VARIABLES
    file,         \* content/articles.json
    world,        \* what the five external sources serve
    runs,         \* invocations started so far
    prev,         \* history: whether the invocation that ended last was a
                  \* complete auto run in which every source answered and the
                  \* service answered as asked, and if so the batch it sent
                  \* and the text it received
    pc,           \* "idle", "aggregate" (awaiting Promise.all), "summarize"
                  \* (summarizeWithClaude called), "awaitSummary" (awaiting the
                  \* service), "done" (exit status 0), "fatal" (exit status 1)
    args,         \* process.argv
    apiKey,       \* whether process.env.ANTHROPIC_API_KEY is set
    existing,     \* const existing = loadExisting(), mutated by unshift
    status,       \* per source: "idle", "fetching", "fetching2", "ok", "failed"
    results,      \* per source: what its element of Promise.all resolves to
    allItems,     \* results.flat()
    newItems,     \* allItems.filter(...)
    batch,        \* items.slice(0, MAX_ARTICLES_PER_BATCH), as sent
    response,     \* the reply of the summarization service
    articles,     \* summarized (auto) or newArticles (apply)
    maxId,        \* let maxId
    added,        \* let added
    error,        \* the error that reached main().catch, "none" for none
    fetchCalls,   \* history: requests issued to the external sources
    apiCalls,     \* history: requests issued to the summarization service
    writes,       \* history: writeFileSync calls that returned
    fileAtStart,  \* history: the document when the invocation started
    order,        \* history: the sources in the order they settled, kept
                  \* when watch is set
    watch,        \* whether the order of settling is being recorded
    dupExisting,  \* isDuplicate on its own: the corpus,
    dupUrl,       \*   the url,
    dupTitle,     \*   the title,
    dupResult     \*   and what it returned ("none" before the call)

runVars ==
    <<pc, args, apiKey, existing, status, results, allItems, newItems, batch,
      response, articles, maxId, added, error, fetchCalls, apiCalls, writes,
      fileAtStart>>
dupVars == <<dupExisting, dupUrl, dupTitle, dupResult>>
histVars == <<order, watch>>
vars == <<file, world, runs, prev, runVars, dupVars, histVars>>

Procs == {1, 2}
\* the invocations of Spec run one after the other, as one process
MainProc == {1}

NoPrev == [clean |-> FALSE, batch |-> <<>>, text |-> <<>>]

IdleStatus == [i \in Sources |-> "idle"]
NoResults == [i \in Sources |-> <<>>]

InitRun ==
    /\ pc = [p \in Procs |-> "idle"]
    /\ args = [p \in Procs |-> Args(FALSE, FALSE, NoArg)]
    /\ apiKey = [p \in Procs |-> FALSE]
    /\ existing = [p \in Procs |-> <<>>]
    /\ status = [p \in Procs |-> IdleStatus]
    /\ results = [p \in Procs |-> NoResults]
    /\ allItems = [p \in Procs |-> <<>>]
    /\ newItems = [p \in Procs |-> <<>>]
    /\ batch = [p \in Procs |-> <<>>]
    /\ response = [p \in Procs |-> NoResponse]
    /\ articles = [p \in Procs |-> <<>>]
    /\ maxId = [p \in Procs |-> 0]
    /\ added = [p \in Procs |-> 0]
    /\ error = [p \in Procs |-> "none"]
    /\ fetchCalls = [p \in Procs |-> 0]
    /\ apiCalls = [p \in Procs |-> 0]
    /\ writes = [p \in Procs |-> 0]
    /\ fileAtStart = [p \in Procs |-> NoDoc]

InitDup ==
    /\ dupExisting = <<>>
    /\ dupUrl = EmptyString
    /\ dupTitle = EmptyString
    /\ dupResult = "none"

InitHist(w) ==
    /\ order = [p \in Procs |-> <<>>]
    /\ watch = w

Init ==
    /\ file \in InitDocs
    /\ world \in Worlds
    /\ runs = 0
    /\ prev = NoPrev
    /\ InitRun
    /\ InitDup
    /\ InitHist(FALSE)

(***************************************************************************)
(* The merge loop of main, lines 283-301 and 369-387, over the articles    *)
(* left: corpus is existing as mutated so far, start the corpus as loaded. *)
(* The loop ends early when isDuplicate throws (threw).                    *)
(***************************************************************************)
Set(f, p, v) == [f EXCEPT ![p] = v]

\* the entry built from an accepted article: id String(maxId) after maxId++
NewEntry(article, id) ==
    [id |-> String(id), title |-> article.title, sourceUrl |-> article.sourceUrl,
     publishDate |-> hebrewDate]

\* a faulty variant of Unshift: the entries already there get the new date
MutUnshiftRestamps(corpus, entry) ==
    <<entry>> \o [i \in 1..Len(corpus) |->
                    [corpus[i] EXCEPT !.publishDate = entry.publishDate]]
\* a faulty variant of Unshift: push instead of unshift
MutUnshiftAppends(corpus, entry) == Append(corpus, entry)
\* existing.unshift(entry)
Unshift(corpus, entry) == <<entry>> \o corpus

\* a faulty variant of Skips: the duplicate test is left out
MutSkipsNothing(start, corpus, article) == FALSE
\* a faulty variant of Skips: the re-check against the corpus as loaded
MutSkipsAgainstStart(start, corpus, article) ==
    isDuplicate(start, article.sourceUrl, article.title)
\* if (isDuplicate(existing, article.sourceUrl, article.title)) continue
Skips(start, corpus, article) ==
    isDuplicate(corpus, article.sourceUrl, article.title)

LoopState(threw, corpus, id, count) ==
    [threw |-> threw, existing |-> corpus, maxId |-> id, added |-> count]

\* a faulty variant of MergeLoop: a record isDuplicate throws on ends the
\* loop without an error
RECURSIVE MutMergeLoopStopsQuietly(_, _, _, _, _)
MutMergeLoopStopsQuietly(start, corpus, id, count, rest) ==
    IF rest = <<>> THEN LoopState(FALSE, corpus, id, count)
    ELSE LET article == Head(rest)
         IN  IF DupThrows(article.sourceUrl, article.title)
             THEN LoopState(FALSE, corpus, id, count)
             ELSE IF Skips(start, corpus, article)
             THEN MutMergeLoopStopsQuietly(start, corpus, id, count, Tail(rest))
             ELSE MutMergeLoopStopsQuietly(start, Unshift(corpus, NewEntry(article, id + 1)),
                                           id + 1, count + 1, Tail(rest))
\* a faulty variant of MergeLoop: a duplicate ends the loop (break for continue)
RECURSIVE MutMergeLoopBreaksOnDuplicate(_, _, _, _, _)
MutMergeLoopBreaksOnDuplicate(start, corpus, id, count, rest) ==
    IF rest = <<>> THEN LoopState(FALSE, corpus, id, count)
    ELSE LET article == Head(rest)
         IN  IF DupThrows(article.sourceUrl, article.title)
             THEN LoopState(TRUE, corpus, id, count)
             ELSE IF Skips(start, corpus, article)
             THEN LoopState(FALSE, corpus, id, count)
             ELSE MutMergeLoopBreaksOnDuplicate(start,
                                                Unshift(corpus, NewEntry(article, id + 1)),
                                                id + 1, count + 1, Tail(rest))
\* for (const article of ...) { ... }, lines 283-301 and 369-387
RECURSIVE MergeLoop(_, _, _, _, _)
MergeLoop(start, corpus, id, count, rest) ==
    IF rest = <<>> THEN LoopState(FALSE, corpus, id, count)
    ELSE LET article == Head(rest)
         IN  IF DupThrows(article.sourceUrl, article.title)
             THEN LoopState(TRUE, corpus, id, count)
             ELSE IF Skips(start, corpus, article)
             THEN MergeLoop(start, corpus, id, count, Tail(rest))
             ELSE MergeLoop(start, Unshift(corpus, NewEntry(article, id + 1)),
                            id + 1, count + 1, Tail(rest))

\* let maxId = existing.reduce(...); let added = 0; for (...) {...}
Merge(corpus, arts) == MergeLoop(corpus, corpus, MaxIdOf(corpus), 0, arts)

\* a faulty variant of MergeAndWrite: the records are merged into the
\* document as it is at the time of the write
MutMergeAndWriteReloads(p, corpus, arts, writable, written) ==
    LET m == Merge(loadExisting(file), arts)
    IN  /\ articles' = Set(articles, p, arts)
        /\ existing' = Set(existing, p, m.existing)
        /\ maxId' = Set(maxId, p, m.maxId)
        /\ added' = Set(added, p, m.added)
        /\ IF m.threw
           THEN /\ pc' = Set(pc, p, "fatal")
                /\ error' = Set(error, p, "type_error")
                /\ writes' = Set(writes, p, written)
                /\ UNCHANGED file
           ELSE IF ~writable
           THEN /\ pc' = Set(pc, p, "fatal")
                /\ error' = Set(error, p, "write_failed")
                /\ writes' = Set(writes, p, written)
                /\ UNCHANGED file
           ELSE /\ pc' = Set(pc, p, "done")
                /\ error' = Set(error, p, "none")
                /\ file' = Stringify(m.existing)
                /\ writes' = Set(writes, p, written + 1)
\* the loop and writeFileSync (lines 280-305, 366-391) for invocation p, on
\* the corpus it loaded; writeFileSync throws when writable is false (the
\* document cannot be opened for writing), which leaves the document as it
\* was; written counts the writes of p so far
MergeAndWrite(p, corpus, arts, writable, written) ==
    LET m == Merge(corpus, arts)
    IN  /\ articles' = Set(articles, p, arts)
        /\ existing' = Set(existing, p, m.existing)
        /\ maxId' = Set(maxId, p, m.maxId)
        /\ added' = Set(added, p, m.added)
        /\ IF m.threw
           THEN /\ pc' = Set(pc, p, "fatal")
                /\ error' = Set(error, p, "type_error")
                /\ writes' = Set(writes, p, written)
                /\ UNCHANGED file
           ELSE IF ~writable
           THEN /\ pc' = Set(pc, p, "fatal")
                /\ error' = Set(error, p, "write_failed")
                /\ writes' = Set(writes, p, written)
                /\ UNCHANGED file
           ELSE /\ pc' = Set(pc, p, "done")
                /\ error' = Set(error, p, "none")
                /\ file' = Stringify(m.existing)
                /\ writes' = Set(writes, p, written + 1)

(***************************************************************************)
(* main, lines 270-333: the invocation starts.                             *)
(***************************************************************************)
\* a faulty variant of autoMode: every scouted run summarizes
MutAutoModeAlways(a) == TRUE
\* const autoMode = args.includes("--auto")
autoMode(a) == a.auto

\* a faulty variant of IsApply: --auto takes precedence over --apply
MutIsApplyUnlessAuto(a) == a.apply /\ a.articlesJson # NoArg /\ ~a.auto
\* if (applyMode && articlesJson)
IsApply(a) == a.apply /\ a.articlesJson # NoArg

\* the records of a text, in order
RECURSIVE RecordsOf(_)
RecordsOf(text) ==
    IF text = <<>> THEN <<>>
    ELSE IF Head(text).k = "rec" THEN <<Head(text).r>> \o RecordsOf(Tail(text))
    ELSE RecordsOf(Tail(text))

\* history: whether the service answered the batch of invocation p with one
\* record per candidate, in order, each with the candidate's link, and
\* nothing around the array
KeptContract(p) ==
    \/ response[p].kind = "none"
    \/ /\ response[p].kind = "http" /\ response[p].ok /\ response[p].hasText
       /\ response[p].stop_reason = "end_turn"
       /\ LET a == RecordsOf(response[p].text)
          IN  /\ Len(a) = Len(batch[p])
              /\ response[p].text = ArrayText(a)
              /\ \A k \in 1..Len(a) :
                   IsString(a[k].title) /\ a[k].sourceUrl = batch[p][k].link

\* history: invocation p was an auto run that ended with exit status 0, in
\* which every source answered and the service answered as asked
CleanAutoRun(p) ==
    /\ pc[p] = "done"
    /\ args[p].auto /\ ~IsApply(args[p])
    /\ \A i \in Sources : status[p][i] = "ok"
    /\ KeptContract(p)

\* a new process starts: argv, the environment and the document it will find
FreshRun(p, a, key) ==
    /\ pc[p] = "idle"
    /\ runs < MaxRuns
    /\ runs' = runs + 1
    /\ args' = Set(args, p, a)
    /\ apiKey' = Set(apiKey, p, key)
    /\ fileAtStart' = Set(fileAtStart, p, file)
    /\ UNCHANGED <<world, prev, dupVars, histVars>>

\* the environment: ANTHROPIC_API_KEY may be set or not in a scouted run
\* (apply mode never reads it)
Keys(a) == IF ~IsApply(a) THEN BOOLEAN ELSE {FALSE}

\* Mode 1, lines 277-306: parse --articles=, load the corpus, merge, write
RunApply(p) ==
    \E a \in ArgsPool, writable \in BOOLEAN :
        /\ IsApply(a)
        /\ FreshRun(p, a, FALSE)
        /\ LET newArticles == JSONparse(a.articlesJson)
           IN  IF ~newArticles.ok
               THEN /\ writable
                    /\ pc' = Set(pc, p, "fatal")
                    /\ error' = Set(error, p, "bad_articles")
                    /\ UNCHANGED <<file, articles, existing, maxId, added, writes>>
               ELSE MergeAndWrite(p, loadExisting(file), newArticles.value, writable,
                                  writes[p])
        /\ UNCHANGED <<status, results, allItems, newItems, batch, response,
                       fetchCalls, apiCalls>>

\* lines 311-333: load the corpus and call the five sources; each source
\* function runs up to its first await, which issues its first request
StartScout(p) ==
    \E a \in ArgsPool :
      \E key \in Keys(a) :
        /\ ~IsApply(a)
        /\ FreshRun(p, a, key)
        /\ existing' = Set(existing, p, loadExisting(file))
        /\ status' = Set(status, p, [i \in Sources |-> "fetching"])
        /\ fetchCalls' = Set(fetchCalls, p, Cardinality(Sources))
        /\ pc' = Set(pc, p, "aggregate")
        /\ UNCHANGED <<file, results, allItems, newItems, batch, response, articles,
                       maxId, added, error, apiCalls, writes>>

\* the process ends: main returned (exit status 0) or main().catch called
\* process.exit(1); nothing of it survives but the document
Exit(p) ==
    /\ pc[p] \in {"done", "fatal"}
    /\ prev' = IF CleanAutoRun(p)
                THEN [clean |-> TRUE, batch |-> batch[p], text |-> response[p].text]
                ELSE NoPrev
    /\ pc' = Set(pc, p, "idle")
    /\ args' = Set(args, p, Args(FALSE, FALSE, NoArg))
    /\ apiKey' = Set(apiKey, p, FALSE)
    /\ existing' = Set(existing, p, <<>>)
    /\ status' = Set(status, p, IdleStatus)
    /\ results' = Set(results, p, NoResults)
    /\ allItems' = Set(allItems, p, <<>>)
    /\ newItems' = Set(newItems, p, <<>>)
    /\ batch' = Set(batch, p, <<>>)
    /\ response' = Set(response, p, NoResponse)
    /\ articles' = Set(articles, p, <<>>)
    /\ maxId' = Set(maxId, p, 0)
    /\ added' = Set(added, p, 0)
    /\ error' = Set(error, p, "none")
    /\ fetchCalls' = Set(fetchCalls, p, 0)
    /\ apiCalls' = Set(apiCalls, p, 0)
    /\ writes' = Set(writes, p, 0)
    /\ fileAtStart' = Set(fileAtStart, p, NoDoc)
    /\ order' = Set(order, p, <<>>)
    /\ UNCHANGED <<file, world, runs, dupVars, watch>>

(***************************************************************************)
(* lines 322-333: one source call settles.  The outcome of s.fn() is       *)
(* [threw, items]; the try/catch around it turns a failure into [].        *)
(***************************************************************************)
Outcome(threw, items) == [threw |-> threw, items |-> items]

\* a faulty variant of Isolate: every source contributes nothing
MutIsolateLosesItems(outcome) == <<>>
\* try { return await s.fn() } catch { return [] }
Isolate(outcome) == IF outcome.threw THEN <<>> ELSE outcome.items

\* a faulty variant of SettleAs: the items go to the next free element of
\* results, in the order of settling
MutSettleAsPushes(p, i, st, items) ==
    /\ status' = Set(status, p, [status[p] EXCEPT ![i] = st])
    /\ results' = IF st \in {"ok", "failed"}
                  THEN Set(results, p, [results[p] EXCEPT ![Len(order[p]) + 1] = items])
                  ELSE results
    /\ order' = IF watch /\ st \in {"ok", "failed"}
                THEN Set(order, p, Append(order[p], i))
                ELSE order
\* sources.map(async (s) => ...): element i of results is what source i gave
SettleAs(p, i, st, items) ==
    /\ status' = Set(status, p, [status[p] EXCEPT ![i] = st])
    /\ results' = Set(results, p, [results[p] EXCEPT ![i] = items])
    /\ order' = IF watch /\ st \in {"ok", "failed"}
                THEN Set(order, p, Append(order[p], i))
                ELSE order

\* a faulty variant of SourceFails: the failed request is issued once more
MutSourceFailsRetries(p, i) ==
    /\ pc[p] = "aggregate"
    /\ status[p][i] \in {"fetching", "fetching2"}
    /\ IF fetchCalls[p] <= Cardinality(Sources) + 1
       THEN /\ fetchCalls' = Set(fetchCalls, p, fetchCalls[p] + 1)
            /\ UNCHANGED <<status, results, order>>
       ELSE /\ SettleAs(p, i, "failed", Isolate(Outcome(TRUE, <<>>)))
            /\ UNCHANGED fetchCalls
    /\ UNCHANGED <<file, world, runs, prev, pc, args, apiKey, existing, allItems,
                   newItems, batch, response, articles, maxId, added, error,
                   apiCalls, writes, fileAtStart, dupVars, watch>>
\* a request of source i fails: network error, !res.ok, unparsable body
SourceFails(p, i) ==
    /\ pc[p] = "aggregate"
    /\ status[p][i] \in {"fetching", "fetching2"}
    /\ SettleAs(p, i, "failed", Isolate(Outcome(TRUE, <<>>)))
    /\ UNCHANGED <<file, world, runs, prev, pc, args, apiKey, existing, allItems,
                   newItems, batch, response, articles, maxId, added, error,
                   fetchCalls, apiCalls, writes, fileAtStart, dupVars, watch>>

\* the only request of a one-stage source, or the second one of PubMed, succeeds
SourceReturns(p, i) ==
    /\ pc[p] = "aggregate"
    /\ \/ i # PubMed /\ status[p][i] = "fetching"
       \/ i = PubMed /\ status[p][i] = "fetching2"
    /\ SettleAs(p, i, "ok", Isolate(Outcome(FALSE, AdapterItems(i, world))))
    /\ UNCHANGED <<file, world, runs, prev, pc, args, apiKey, existing, allItems,
                   newItems, batch, response, articles, maxId, added, error,
                   fetchCalls, apiCalls, writes, fileAtStart, dupVars, watch>>

\* a faulty variant of PubMedSearchReturns: the summary is requested also
\* for an empty id list
MutPubMedSearchAlwaysSummarizes(p) ==
    /\ pc[p] = "aggregate"
    /\ status[p][PubMed] = "fetching"
    /\ SettleAs(p, PubMed, "fetching2", <<>>)
    /\ fetchCalls' = Set(fetchCalls, p, fetchCalls[p] + 1)
    /\ UNCHANGED <<file, world, runs, prev, pc, args, apiKey, existing, allItems,
                   newItems, batch, response, articles, maxId, added, error,
                   apiCalls, writes, fileAtStart, dupVars, watch>>
\* fetchPubMed, lines 140-147: the search succeeds; no id, no second request
PubMedSearchReturns(p) ==
    /\ pc[p] = "aggregate"
    /\ status[p][PubMed] = "fetching"
    /\ IF world.idlist = <<>>
       THEN /\ SettleAs(p, PubMed, "ok", Isolate(Outcome(FALSE, <<>>)))
            /\ UNCHANGED fetchCalls
       ELSE /\ SettleAs(p, PubMed, "fetching2", <<>>)
            /\ fetchCalls' = Set(fetchCalls, p, fetchCalls[p] + 1)
    /\ UNCHANGED <<file, world, runs, prev, pc, args, apiKey, existing, allItems,
                   newItems, batch, response, articles, maxId, added, error,
                   apiCalls, writes, fileAtStart, dupVars, watch>>

\* a faulty variant of Settled: one settled source is enough (Promise.race)
MutSettledAnyOne(p) == \E i \in Sources : status[p][i] \in {"ok", "failed"}
\* await Promise.all(...): every element has resolved
Settled(p) == \A i \in Sources : status[p][i] \in {"ok", "failed"}

(***************************************************************************)
(* summarizeWithClaude, lines 187-238, up to its await: the credential     *)
(* check, the batch and the one request.                                   *)
(***************************************************************************)
\* a faulty variant of BatchOf: a cap of one more
MutBatchOfOneMore(items) == SubSeq(items, 1, Min(Len(items), MAX_ARTICLES_PER_BATCH + 1))
\* newItems.slice(0, MAX_ARTICLES_PER_BATCH)
BatchOf(items) == Slice(items, MAX_ARTICLES_PER_BATCH)

CallSummarizer(p, items) ==
    IF ~apiKey[p]
    THEN /\ pc' = Set(pc, p, "fatal")
         /\ error' = Set(error, p, "no_key")
         /\ UNCHANGED <<batch, apiCalls>>
    ELSE /\ batch' = Set(batch, p, BatchOf(items))
         /\ apiCalls' = Set(apiCalls, p, apiCalls[p] + 1)
         /\ pc' = Set(pc, p, "awaitSummary")
         /\ UNCHANGED error

\* a faulty variant of Aggregate: an auto run calls summarizeWithClaude
\* also when nothing is new
MutAggregateSummarizesNothing(p) ==
    /\ pc[p] = "aggregate"
    /\ Settled(p)
    /\ LET all == Flat(results[p])
           new == FilterNew(existing[p], all)
       IN  /\ allItems' = Set(allItems, p, all)
           /\ newItems' = Set(newItems, p, new)
           /\ IF ~autoMode(args[p])
              THEN /\ pc' = Set(pc, p, "done")
                   /\ UNCHANGED <<error, batch, apiCalls>>
              ELSE CallSummarizer(p, new)
    /\ UNCHANGED <<file, world, runs, prev, args, apiKey, existing, status, results,
                   response, articles, maxId, added, fetchCalls, writes,
                   fileAtStart, dupVars,
                   histVars>>

(***************************************************************************)
(* lines 335-364: Promise.all has resolved: flatten, pre-filter, return    *)
(* unless there are new items and the mode is --auto, else call            *)
(* summarizeWithClaude.                                                    *)
(***************************************************************************)
Aggregate(p) ==
    /\ pc[p] = "aggregate"
    /\ Settled(p)
    /\ LET all == Flat(results[p])
           new == FilterNew(existing[p], all)
       IN  /\ allItems' = Set(allItems, p, all)
           /\ newItems' = Set(newItems, p, new)
           /\ IF new = <<>> \/ ~autoMode(args[p])
              THEN /\ pc' = Set(pc, p, "done")
                   /\ UNCHANGED <<error, batch, apiCalls>>
              ELSE CallSummarizer(p, new)
    /\ UNCHANGED <<file, world, runs, prev, args, apiKey, existing, status, results,
                   response, articles, maxId, added, fetchCalls, writes,
                   fileAtStart, dupVars,
                   histVars>>

(***************************************************************************)
(* lines 240-267 and 364-391: the reply arrives and is validated; a valid  *)
(* one gives summarized, which main merges and writes.                     *)
(***************************************************************************)
SummarizeReply(p) ==
    /\ pc[p] = "awaitSummary"
    /\ \E r \in Responses, writable \in BOOLEAN :
        /\ response' = Set(response, p, r)
        /\ IF Validate(r).error # "none"
           THEN /\ writable
                /\ pc' = Set(pc, p, "fatal")
                /\ error' = Set(error, p, Validate(r).error)
                /\ UNCHANGED <<file, articles, existing, maxId, added, writes>>
           ELSE MergeAndWrite(p, existing[p], Validate(r).value, writable, writes[p])
    /\ UNCHANGED <<world, runs, prev, args, apiKey, status, results, allItems,
                   newItems, batch, fetchCalls, apiCalls, fileAtStart, dupVars,
                   histVars>>

(***************************************************************************)
(* The pipeline, its invocations one after the other.                      *)
(***************************************************************************)
Next ==
    \E p \in MainProc :
        \/ RunApply(p)
        \/ StartScout(p)
        \/ \E i \in Sources : SourceFails(p, i)
        \/ \E i \in Sources : SourceReturns(p, i)
        \/ PubMedSearchReturns(p)
        \/ Aggregate(p)
        \/ SummarizeReply(p)
        \/ Exit(p)

Spec == Init /\ [][Next]_vars

(***************************************************************************)
(* The Aggregator on its own: one scouted run up to the end of main in a   *)
(* dry run, with the order in which the five sources settle recorded.      *)
(***************************************************************************)
InitOrder ==
    /\ file \in InitDocs
    /\ world \in Worlds
    /\ runs = 0
    /\ prev = NoPrev
    /\ InitRun
    /\ InitDup
    /\ InitHist(TRUE)

StartDryRun(p) ==
    /\ StartScout(p)
    /\ args'[p] = Args(FALSE, FALSE, NoArg)
    /\ ~apiKey'[p]

NextOrder ==
    \E p \in MainProc :
        \/ StartDryRun(p)
        \/ \E i \in Sources : SourceFails(p, i)
        \/ \E i \in Sources : SourceReturns(p, i)
        \/ PubMedSearchReturns(p)
        \/ Aggregate(p)

SpecOrder == InitOrder /\ [][NextOrder]_vars

(***************************************************************************)
(* One scouted run, in any mode, from start to exit.  Once Promise.all has *)
(* resolved, the event loop resumes main: the step after the await is      *)
(* taken if it stays possible.                                             *)
(***************************************************************************)
NextScout ==
    \E p \in MainProc :
        \/ StartScout(p)
        \/ \E i \in Sources : SourceFails(p, i)
        \/ \E i \in Sources : SourceReturns(p, i)
        \/ PubMedSearchReturns(p)
        \/ Aggregate(p)
        \/ SummarizeReply(p)

SpecScout ==
    /\ Init
    /\ [][NextScout]_vars
    /\ \A p \in MainProc : WF_vars(Aggregate(p))

(***************************************************************************)
(* summarizeWithClaude on its own: called with any list of candidates,     *)
(* also one longer than the five sources can produce.                      *)
(***************************************************************************)
ItemKinds ==
    << Candidate(TitleT, UrlA, "google-news"), Candidate(TitleU, UrlB, "sciencedaily"),
       Candidate(TitleV, UrlC, "openalex") >>

\* n candidates, cycling through the kinds from offset off
ItemsOf(n, off) == [k \in 1..n |-> ItemKinds[((k + off) % Len(ItemKinds)) + 1]]

InitSummarize ==
    /\ file = Doc(<<Entry(String(1), TitleT, UrlA)>>)
    /\ world = WorldQuiet
    /\ runs = 1
    /\ prev = NoPrev
    /\ InitDup
    /\ InitHist(FALSE)
    /\ \E n \in 1..MaxItems, off \in 0..2, key \in BOOLEAN :
        /\ pc = [p \in Procs |-> IF p \in MainProc THEN "summarize" ELSE "idle"]
        /\ args = [p \in Procs |-> IF p \in MainProc THEN Args(TRUE, FALSE, NoArg)
                                    ELSE Args(FALSE, FALSE, NoArg)]
        /\ apiKey = [p \in Procs |-> p \in MainProc /\ key]
        /\ newItems = [p \in Procs |-> IF p \in MainProc THEN ItemsOf(n, off) ELSE <<>>]
        /\ allItems = newItems
        /\ existing = [p \in Procs |-> IF p \in MainProc THEN loadExisting(file) ELSE <<>>]
        /\ fileAtStart = [p \in Procs |-> IF p \in MainProc THEN file ELSE NoDoc]
    /\ status = [p \in Procs |-> IdleStatus]
    /\ results = [p \in Procs |-> NoResults]
    /\ batch = [p \in Procs |-> <<>>]
    /\ response = [p \in Procs |-> NoResponse]
    /\ articles = [p \in Procs |-> <<>>]
    /\ maxId = [p \in Procs |-> 0]
    /\ added = [p \in Procs |-> 0]
    /\ error = [p \in Procs |-> "none"]
    /\ fetchCalls = [p \in Procs |-> 0]
    /\ apiCalls = [p \in Procs |-> 0]
    /\ writes = [p \in Procs |-> 0]

SummarizeCall(p) ==
    /\ pc[p] = "summarize"
    /\ CallSummarizer(p, newItems[p])
    /\ UNCHANGED <<file, world, runs, prev, args, apiKey, existing, status, results,
                   allItems, newItems, response, articles, maxId, added, fetchCalls,
                   writes, fileAtStart, dupVars,
                   histVars>>

NextSummarize ==
    \E p \in MainProc :
        \/ SummarizeCall(p)
        \/ SummarizeReply(p)
        \/ Exit(p)

SpecSummarize == InitSummarize /\ [][NextSummarize]_vars

(***************************************************************************)
(* isDuplicate on its own: called with any corpus, url and title.          *)
(***************************************************************************)
DupUrls == {EmptyString, <<"a">>, <<"A", "/">>, <<"a", "/", "/">>, <<"/", "a">>}
DupTitles == {EmptyString, <<"t">>, <<" ", "T", " ">>, <<"t", " ", "t">>}
DupEntries ==
    {Entry(String(1), t, u) : t \in DupTitles \cup {Undefined}, u \in DupUrls \cup {Undefined}}

InitDupSpec ==
    /\ file = NoDoc
    /\ world = WorldQuiet
    /\ runs = 0
    /\ prev = NoPrev
    /\ InitRun
    /\ InitDup
    /\ InitHist(FALSE)

\* the corpus grows by one entry
DupAdd ==
    /\ dupResult = "none"
    /\ Len(dupExisting) < MaxExisting
    /\ \E e \in DupEntries : dupExisting' = Append(dupExisting, e)
    /\ UNCHANGED <<file, world, runs, prev, runVars, histVars, dupUrl, dupTitle,
                   dupResult>>

\* isDuplicate(dupExisting, url, title) is called and returns
DupCall ==
    /\ dupResult = "none"
    /\ \E u \in DupUrls, t \in DupTitles :
        /\ dupUrl' = u
        /\ dupTitle' = t
        /\ dupResult' = IF isDuplicate(dupExisting, u, t) THEN "true" ELSE "false"
    /\ UNCHANGED <<file, world, runs, prev, runVars, histVars, dupExisting>>

NextDup == DupAdd \/ DupCall

SpecDup == InitDupSpec /\ [][NextDup]_vars

(***************************************************************************)
(* Properties.                                                             *)
(***************************************************************************)
\* r is s without the run of "/" that ends it
IsWithoutTrailingSlashes(s, r) ==
    \E k \in 0..Len(s) :
        /\ r = SubSeq(s, 1, k)
        /\ k = 0 \/ s[k] # "/"
        /\ \A j \in (k + 1)..Len(s) : s[j] = "/"

\* r is s without the white space around it
IsTrimmed(s, r) ==
    \/ r = <<>> /\ \A j \in 1..Len(s) : s[j] = " "
    \/ \E i \in 1..Len(s), k \in 1..Len(s) :
        /\ i <= k
        /\ r = SubSeq(s, i, k)
        /\ s[i] # " " /\ s[k] # " "
        /\ \A j \in 1..(i - 1) : s[j] = " "
        /\ \A j \in (k + 1)..Len(s) : s[j] = " "

\* the two normalizations, as relations between strings
SameUrl(u, v) ==
    \E r \in {SubSeq(u, 1, k) : k \in 0..Len(u)}, q \in {SubSeq(v, 1, k) : k \in 0..Len(v)} :
        /\ IsWithoutTrailingSlashes(u, r)
        /\ IsWithoutTrailingSlashes(v, q)
        /\ toLowerCase(r) = toLowerCase(q)

SubStrings(s) == {SubSeq(s, i, k) : i \in 1..(Len(s) + 1), k \in 0..Len(s)}

SameTitle(t, v) ==
    \E r \in SubStrings(t), q \in SubStrings(v) :
        /\ IsTrimmed(t, r)
        /\ IsTrimmed(v, q)
        /\ toLowerCase(r) = toLowerCase(q)

\* a missing sourceUrl or title of a corpus entry counts as the empty string
FieldOf(v) == IF v = Undefined THEN EmptyString ELSE v

\* C1: isDuplicate(existing, url, title) returns true exactly when some entry
\* of existing has the same normalized sourceUrl as url or the same normalized
\* title as title (URL: trailing slashes stripped, lowercased; title:
\* lowercased, trimmed); either alone suffices, nothing else does.
C1_IsDuplicateIffUrlOrTitle ==
    dupResult # "none" =>
        (dupResult = "true" <=>
            \E i \in 1..Len(dupExisting) :
                \/ SameUrl(FieldOf(dupExisting[i].sourceUrl), dupUrl)
                \/ SameTitle(FieldOf(dupExisting[i].title), dupTitle))

\* C1 witness: the corpus holds one entry whose sourceUrl ends with a slash,
\* the candidate has the same url without the slash and another title, and
\* isDuplicate returned true
C1_Witness ==
    /\ dupResult = "true"
    /\ Len(dupExisting) = 1
    /\ dupExisting[1].sourceUrl = <<"A", "/">>
    /\ dupExisting[1].title = <<"t">>
    /\ dupUrl = <<"a">>
    /\ dupTitle = <<"t", " ", "t">>

(***************************************************************************)
(* Properties of the pipeline.                                             *)
(***************************************************************************)
\* the corpus invocation p started from
PreRun(p) == IF fileAtStart[p].ok THEN fileAtStart[p].doc ELSE <<>>

\* invocation p merged and wrote the document
Merged(p) == pc[p] = "done" /\ writes[p] = 1

\* invocation p is or was a scouted run in mode --auto
IsAutoRun(p) == pc[p] # "idle" /\ args[p].auto /\ ~IsApply(args[p])

\* C2: a second auto run against unchanged external sources inserts nothing
\* and leaves the persisted corpus as the first run left it.  Stated for two
\* consecutive complete auto runs in which every source answered (the world
\* never changes), the service answered each batch as asked, and answered
\* the second batch as it answered the first if the two are the same batch.
C2_SecondRunInsertsNothing ==
    \A p \in MainProc :
        (/\ prev.clean
         /\ CleanAutoRun(p)
         /\ batch[p] = prev.batch => response[p].text = prev.text)
        => (added[p] = 0 /\ file = fileAtStart[p])

\* the number an id stands for
IdNumber(id) == CHOOSE n \in 0..99 : String(n) = id

\* the largest id of a corpus, 0 for the empty one
LargestId(corpus) ==
    IF corpus = <<>> THEN 0
    ELSE CHOOSE m \in {IdNumber(corpus[i].id) : i \in 1..Len(corpus)} :
            \A j \in 1..Len(corpus) : m >= IdNumber(corpus[j].id)

IdsUnique(corpus) ==
    \A i \in 1..Len(corpus), j \in 1..Len(corpus) :
        i # j => corpus[i].id # corpus[j].id

\* C3: after any sequence of runs, one after the other, from a corpus with
\* unique ids, the ids of the persisted corpus are unique; the k-th entry a
\* run inserts has id (largest id of the pre-run corpus) + k.
C3_IdsUniqueAndConsecutive ==
    /\ file.ok => IdsUnique(file.doc)
    /\ \A p \in MainProc :
        Merged(p) =>
            \A k \in 1..added[p] :
                /\ added[p] - k + 1 <= Len(file.doc)
                /\ file.doc[added[p] - k + 1].id = String(LargestId(PreRun(p)) + k)

\* C3 witness: a run inserted two entries into a corpus whose largest id is
\* not the id of its first entry, the new ids having two digits
C3_Witness ==
    /\ Merged(1)
    /\ added[1] = 2
    /\ Len(PreRun(1)) = 2
    /\ LargestId(PreRun(1)) = 9
    /\ file.doc[1].id = <<"1", "1">>

\* the text has no "[" followed, somewhere, by "]"
NoArrayShape(text) ==
    ~\E i \in 1..Len(text), j \in 1..Len(text) :
        i < j /\ text[i].k = "[" /\ text[j].k = "]"

\* the part of the text from its first "[" to its last "]"
Located(text) ==
    LET i == CHOOSE i \in 1..Len(text) :
                 text[i].k = "[" /\ \A h \in 1..(i - 1) : text[h].k # "["
        j == CHOOSE j \in 1..Len(text) :
                 text[j].k = "]" /\ \A h \in (j + 1)..Len(text) : text[h].k # "]"
    IN  SubSeq(text, i, j)

\* the text is the JSON text of an array of records
IsArrayText(text) == text = ArrayText(RecordsOf(text))

\* the service was asked, and its reply of invocation p has come
Replied(p) == response[p].kind = "http"

\* the five fatal conditions of the summarization step, for invocation p
MissingCredential(p) == IsAutoRun(p) /\ newItems[p] # <<>> /\ ~apiKey[p]
NonSuccess(p) == Replied(p) /\ ~response[p].ok
Truncated(p) ==
    Replied(p) /\ response[p].ok /\ response[p].hasText
    /\ response[p].stop_reason = "max_tokens"
NoArrayFound(p) ==
    Replied(p) /\ response[p].ok /\ response[p].hasText /\ NoArrayShape(response[p].text)
ArrayUnparsable(p) ==
    Replied(p) /\ response[p].ok /\ response[p].hasText
    /\ ~NoArrayShape(response[p].text) /\ ~IsArrayText(Located(response[p].text))

\* C4: when the summarization step meets one of its five fatal conditions
\* (no credential, non-success response, truncated response, no array-shaped
\* substring, unparsable substring) the run ends in a fatal error without
\* having written the document: the persisted corpus is the pre-run one.
C4_FatalSummarizationLeavesCorpus ==
    \A p \in MainProc :
        (\/ MissingCredential(p) \/ NonSuccess(p) \/ Truncated(p)
         \/ NoArrayFound(p) \/ ArrayUnparsable(p))
        => (pc[p] = "fatal" /\ writes[p] = 0 /\ file = fileAtStart[p])

\* C4 witness: a reply marked truncated that nevertheless holds a complete
\* array with a record the corpus does not have; the run ended fatally
C4_Witness ==
    /\ Truncated(1)
    /\ IsArrayText(response[1].text)
    /\ ~isDuplicate(PreRun(1), UrlB, TitleU)
    /\ fileAtStart[1].ok
    /\ pc[1] = "fatal"

\* the reply of invocation p holds a well-formed array
ArrayReply(p) ==
    Replied(p) /\ response[p].ok /\ response[p].hasText
    /\ response[p].stop_reason = "end_turn"
    /\ ~NoArrayShape(response[p].text) /\ IsArrayText(Located(response[p].text))

\* C5: a reply whose array has one record fewer than the batch, or whose array
\* is wrapped in prose, makes the auto run end in a fatal error with the
\* document as it was.
C5_ShortOrWrappedReplyAborts ==
    \A p \in MainProc :
        (ArrayReply(p)
         /\ \/ Len(RecordsOf(response[p].text)) = Len(batch[p]) - 1
            \/ Located(response[p].text) # response[p].text)
        => (pc[p] = "fatal" /\ file = fileAtStart[p])

\* C6: an auto run without the credential ends in a fatal error before any
\* network call: no request to a source, none to the summarization service.
C6_NoCredentialNoNetworkCall ==
    \A p \in MainProc :
        (IsAutoRun(p) /\ ~apiKey[p] /\ pc[p] \in {"done", "fatal"})
        => (pc[p] = "fatal" /\ fetchCalls[p] = 0 /\ apiCalls[p] = 0)

\* what source i contributes to the candidates of invocation p: nothing when
\* it failed, what it returned otherwise
Contribution(p, i) ==
    IF status[p][i] = "failed" THEN <<>> ELSE AdapterItems(i, world)

\* invocation p is past the Aggregator
Aggregated(p) ==
    /\ pc[p] \in {"awaitSummary", "done", "fatal"}
    /\ ~IsApply(args[p])
    /\ \A i \in Sources : status[p][i] # "idle"

\* C7: whatever subset of the five sources fails, each failing source
\* contributes nothing and each other source exactly what it returned: the
\* combined list is the one the sources that did not fail give, and the run
\* goes on to the pre-filter, which is applied to that list (no run ends
\* before every source has settled).
C7_FailingSourcesContributeNothing ==
    \A p \in MainProc :
        Aggregated(p) =>
            /\ Settled(p)
            /\ allItems[p] = Contribution(p, 1) \o Contribution(p, 2) \o Contribution(p, 3)
                             \o Contribution(p, 4) \o Contribution(p, 5)
            /\ newItems[p] = FilterNew(PreRun(p), allItems[p])

\* C7 witness: two sources failed, one of them between two that returned
\* items, and the run went on with the items of the others
C7_Witness ==
    /\ Aggregated(1)
    /\ world = WorldRich
    /\ status[1][2] = "failed" /\ status[1][4] = "failed"
    /\ status[1][1] = "ok" /\ status[1][3] = "ok" /\ status[1][5] = "ok"
    /\ Len(allItems[1]) = 6
    /\ pc[1] = "done"

\* C8: the batch sent to the summarization service is the first min(n, cap)
\* candidates, in order, so never more than the cap (10); the rest is dropped
\* and no second request is made.
C8_BatchIsCappedPrefix ==
    \A p \in MainProc :
        /\ apiCalls[p] <= 1
        /\ apiCalls[p] = 1 =>
            /\ Len(batch[p]) <= MAX_ARTICLES_PER_BATCH
            /\ Len(batch[p]) = Min(Len(newItems[p]), MAX_ARTICLES_PER_BATCH)
            /\ \A k \in 1..Len(batch[p]) : batch[p][k] = newItems[p][k]
        /\ apiCalls[p] = 0 => batch[p] = <<>>

\* C8 witness: eleven candidates, ten of them sent, and the run is over
C8_Witness ==
    /\ Len(newItems[1]) = MAX_ARTICLES_PER_BATCH + 1
    /\ Len(batch[1]) = MAX_ARTICLES_PER_BATCH
    /\ apiCalls[1] = 1
    /\ pc[1] = "done"

\* C9: a merge that inserts k entries into a corpus of length n persists a
\* corpus of length n + k; the new entries are its first k, in reverse order of
\* insertion (ids previous max + k down to previous max + 1), and the prior
\* entries follow.
C9_NewEntriesFirstNewestFirst ==
    \A p \in MainProc :
        Merged(p) =>
            LET n == Len(PreRun(p))
                k == added[p]
            IN  /\ file.ok
                /\ Len(file.doc) = n + k
                /\ \A j \in 1..k : file.doc[j].id = String(LargestId(PreRun(p)) + k - j + 1)
                /\ \A j \in 1..n : file.doc[k + j] = PreRun(p)[j]

\* C9 witness: two entries inserted into a corpus of two
C9_Witness ==
    /\ Merged(1)
    /\ added[1] = 2
    /\ Len(PreRun(1)) = 2
    /\ Len(file.doc) = 4
    /\ file.doc[1].title # file.doc[2].title

SameKey(a, b) ==
    \/ NormalizeUrl(OrEmpty(a.sourceUrl)) = NormalizeUrl(OrEmpty(b.sourceUrl))
    \/ NormalizeTitle(OrEmpty(a.title)) = NormalizeTitle(OrEmpty(b.title))

NoCollision(corpus) ==
    \A i \in 1..Len(corpus), j \in 1..Len(corpus) :
        i # j => ~SameKey(corpus[i], corpus[j])

\* C10: from a corpus without two entries of equal normalized sourceUrl or
\* title, any sequence of runs, one after the other, persists a corpus without
\* two such entries; two records of one batch that collide with each other
\* are never both inserted.
C10_NoTwoEntriesCollide ==
    /\ file.ok => NoCollision(file.doc)
    /\ \A p \in MainProc : NoCollision(existing[p])

\* C10 witness: a batch of two records that collide with each other and with
\* nothing in the pre-run corpus; the first was inserted, the second skipped
C10_Witness ==
    /\ Merged(1)
    /\ Len(articles[1]) = 2
    /\ SameKey(articles[1][1], articles[1][2])
    /\ ~isDuplicate(PreRun(1), articles[1][2].sourceUrl, articles[1][2].title)
    /\ added[1] = 1
    /\ PreRun(1) # <<>>
    /\ file.doc[1].title = articles[1][1].title

\* record k of the batch invocation p merged is well formed (isDuplicate
\* accepts it) and the corpus holds an entry with its sourceUrl or title
Represented(p, k, corpus) ==
    /\ ~DupThrows(articles[p][k].sourceUrl, articles[p][k].title)
    /\ isDuplicate(corpus, articles[p][k].sourceUrl, articles[p][k].title)

\* the first n entries of the corpus are built from records of the batch of p
FromBatch(p, n, corpus) ==
    \A j \in 1..n :
        \E k \in 1..Len(articles[p]) :
            /\ corpus[j].title = articles[p][k].title
            /\ corpus[j].sourceUrl = articles[p][k].sourceUrl

\* C11: no partial-success write, in either mode.  A run writes the document
\* at most once; until it has, the document is the one it started from; once
\* it has, the run is over with exit status 0 and the document is the pre-run
\* corpus with the non-duplicate records of the whole batch put before it
\* (every record of the batch is then in the corpus); a run that fails, also
\* on a malformed record in the middle of the batch, has written nothing.
C11_NoPartialWrite ==
    \A p \in MainProc :
        /\ writes[p] <= 1
        /\ (pc[p] # "idle" /\ writes[p] = 0) => file = fileAtStart[p]
        /\ pc[p] = "fatal" => (writes[p] = 0 /\ file = fileAtStart[p])
        /\ writes[p] = 1 =>
            /\ pc[p] = "done"
            /\ file.ok
            /\ Len(file.doc) = Len(PreRun(p)) + added[p]
            /\ SubSeq(file.doc, added[p] + 1, Len(file.doc)) = PreRun(p)
            /\ FromBatch(p, added[p], file.doc)
            /\ \A k \in 1..Len(articles[p]) : Represented(p, k, file.doc)

\* C11 witness: a batch whose first record was accepted and prepended in
\* memory and whose second record is malformed; the run failed and the
\* document is the one it started from
C11_Witness ==
    /\ pc[1] = "fatal"
    /\ error[1] = "type_error"
    /\ Len(articles[1]) = 2
    /\ DupThrows(articles[1][2].sourceUrl, articles[1][2].title)
    /\ Len(existing[1]) = Len(PreRun(1)) + 1
    /\ fileAtStart[1].ok
    /\ file = fileAtStart[1]

\* invocation p is or was a dry run: no --auto, and not both --apply and
\* --articles=
IsDryRun(p) == pc[p] # "idle" /\ ~args[p].auto /\ ~IsApply(args[p])

\* C12: a dry run never writes the corpus document and never calls the
\* summarization service, whatever the sources return: the document stays
\* the one the run started from.
C12_DryRunWritesNothing ==
    \A p \in MainProc :
        IsDryRun(p) =>
            /\ writes[p] = 0
            /\ apiCalls[p] = 0
            /\ batch[p] = <<>> /\ response[p] = NoResponse
            /\ file = fileAtStart[p]

\* C12 witness: a dry run with the credential set that found new candidates
\* and ended
C12_Witness ==
    /\ IsDryRun(1)
    /\ apiKey[1]
    /\ pc[1] = "done"
    /\ Len(newItems[1]) >= 2
    /\ \E i \in Sources : status[1][i] = "failed"

\* invocation p was given both --apply and --articles=
IsApplyRun(p) ==
    pc[p] # "idle" /\ args[p].apply /\ args[p].articlesJson # NoArg

\* entry j of the corpus collides with no entry after it
NewAt(corpus, j) ==
    \A h \in (j + 1)..Len(corpus) : ~SameKey(corpus[j], corpus[h])

\* C13: a run in apply mode calls no source and makes no summarization
\* request; an entry is inserted only if it is no duplicate of the corpus as
\* mutated so far (of the prior entries and of the entries inserted before
\* it), and a run that ends without failure has persisted the corpus.
C13_ApplyMergesOnly ==
    \A p \in MainProc :
        IsApplyRun(p) =>
            /\ fetchCalls[p] = 0 /\ apiCalls[p] = 0
            /\ status[p] = IdleStatus /\ allItems[p] = <<>> /\ batch[p] = <<>>
            /\ pc[p] \in {"done", "fatal"}
            /\ pc[p] = "done" =>
                /\ writes[p] = 1
                /\ file = Stringify(existing[p])
                /\ Len(file.doc) = Len(PreRun(p)) + added[p]
                /\ \A j \in 1..added[p] : NewAt(file.doc, j)
                /\ \A k \in 1..Len(articles[p]) : Represented(p, k, file.doc)

\* C13 witness: an apply run with two records that collide with each other
\* and not with the corpus: the first was inserted, the second skipped, and
\* the corpus persisted without a request
C13_Witness ==
    /\ IsApplyRun(1)
    /\ pc[1] = "done"
    /\ Len(articles[1]) = 2 /\ added[1] = 1
    /\ SameKey(articles[1][1], articles[1][2])
    /\ PreRun(1) # <<>>
    /\ Len(file.doc) = Len(PreRun(1)) + 1

\* the failures of a run other than those of a source: of the summarization
\* step (no credential, no response, non-success, no text, truncated, no
\* array, unparsable array),
SummaryFailure(p) ==
    \/ MissingCredential(p)
    \/ response[p].kind = "network"
    \/ NonSuccess(p)
    \/ Replied(p) /\ response[p].ok /\ ~response[p].hasText
    \/ Truncated(p) \/ NoArrayFound(p) \/ ArrayUnparsable(p)

\* of the --articles= input (not the JSON text of an array of records),
BadArticles(p) == IsApplyRun(p) /\ ~IsArrayText(args[p].articlesJson)

\* and of the merge (a record without a string title or sourceUrl)
MergeFailure(p) ==
    \E k \in 1..Len(articles[p]) :
        ~IsString(articles[p][k].title) \/ ~IsString(articles[p][k].sourceUrl)

\* invocation p got as far as the merge loop
ReachedMerge(p) == (IsApplyRun(p) /\ ~BadArticles(p)) \/ ArrayReply(p)

\* C14: the failure of a source never ends the run and never gives exit
\* status 1: a run ends with exit status 1 only for a failure of the
\* summarization step, of the --articles= input, of the merge or of the
\* write; and each of these ends the run with exit status 1 and a message
\* (a run that reached the merge and ended with exit status 0 has written).
C14_OnlyNonSourceFailuresAreFatal ==
    \A p \in MainProc :
        /\ pc[p] = "fatal" =>
            /\ error[p] # "none"
            /\ \/ SummaryFailure(p) \/ BadArticles(p) \/ MergeFailure(p)
               \/ ReachedMerge(p) /\ error[p] = "write_failed"
        /\ (SummaryFailure(p) \/ BadArticles(p) \/ MergeFailure(p))
           => (pc[p] = "fatal" /\ error[p] # "none")
        /\ pc[p] = "done" =>
            /\ error[p] = "none"
            /\ ReachedMerge(p) => writes[p] = 1
        /\ (pc[p] = "aggregate" /\ \E i \in Sources : status[p][i] = "failed")
           => error[p] = "none"

\* C14 witness: a run in which two sources failed went on to insert an
\* entry and ended with exit status 0
C14_Witness ==
    /\ IsAutoRun(1)
    /\ status[1][1] = "failed" /\ status[1][4] = "failed"
    /\ pc[1] = "done"
    /\ added[1] >= 1
    /\ error[1] = "none"

\* the records of a batch that are no duplicates, in order: a record is one
\* if it shares its normalized sourceUrl or title with no entry of the corpus
\* and with none of the records found before it
RECURSIVE NonDuplicates(_, _)
NonDuplicates(corpus, arts) ==
    IF arts = <<>> THEN <<>>
    ELSE IF \E i \in 1..Len(corpus) : SameKey(corpus[i], Head(arts))
    THEN NonDuplicates(corpus, Tail(arts))
    ELSE <<Head(arts)>> \o NonDuplicates(<<Head(arts)>> \o corpus, Tail(arts))

\* invocation p went through the merge loop to its end
LoopEnded(p) == ReachedMerge(p) /\ ~MergeFailure(p)

\* C15: in the merge loop of either mode a duplicate is never an error: it
\* is skipped, consumes no id and does not count, and the loop goes on with
\* the records after it.  So the inserted count is the number of
\* non-duplicates of the batch, which is the number of entries prepended,
\* the running maximum has advanced by as much, the entries prepended are
\* the non-duplicates in order, and the loop raised no error.
C15_DuplicatesAreSkipped ==
    \A p \in MainProc :
        LoopEnded(p) =>
            LET new == NonDuplicates(PreRun(p), articles[p])
            IN  /\ added[p] = Len(new)
                /\ Len(existing[p]) = Len(PreRun(p)) + added[p]
                /\ maxId[p] = LargestId(PreRun(p)) + added[p]
                /\ \A k \in 1..Len(new) :
                      /\ existing[p][added[p] - k + 1].title = new[k].title
                      /\ existing[p][added[p] - k + 1].sourceUrl = new[k].sourceUrl
                      /\ existing[p][added[p] - k + 1].id = String(LargestId(PreRun(p)) + k)
                /\ error[p] \in {"none", "write_failed"}

\* C15 witness: the first record of a batch of two is a duplicate of the
\* pre-run corpus, the second was inserted with the next id
C15_Witness ==
    /\ LoopEnded(1)
    /\ pc[1] = "done"
    /\ Len(articles[1]) = 2
    /\ isDuplicate(PreRun(1), articles[1][1].sourceUrl, articles[1][1].title)
    /\ added[1] = 1
    /\ file.doc[1].title = articles[1][2].title
    /\ file.doc[1].id = String(LargestId(PreRun(1)) + 1)

\* the last n entries of a corpus
Suffix(corpus, n) == SubSeq(corpus, Len(corpus) - n + 1, Len(corpus))

\* C16: a merge never changes, removes or reorders the entries the corpus
\* already had: the pre-run corpus is a suffix, entry for entry, of the
\* corpus in memory once loaded and of the document, written or not.
C16_PriorEntriesUntouched ==
    \A p \in MainProc :
        LET n == Len(PreRun(p))
        IN  /\ (pc[p] # "idle" /\ file.ok) =>
                (Len(file.doc) >= n /\ Suffix(file.doc, n) = PreRun(p))
            /\ (pc[p] # "idle" /\ ~BadArticles(p)) =>
                (Len(existing[p]) >= n /\ Suffix(existing[p], n) = PreRun(p))

\* C16 witness: a run has put an entry, stamped with the day of the run,
\* before two entries stored earlier, and written the document
C16_Witness ==
    /\ Merged(1)
    /\ Len(PreRun(1)) = 2
    /\ added[1] >= 1
    /\ file.doc[1].publishDate = hebrewDate
    /\ file.doc[Len(file.doc)].publishDate = Earlier
    /\ Suffix(file.doc, 2) = PreRun(1)

\* where the items of source i begin in the combined list: after the items
\* of the sources before it
RECURSIVE Offset(_, _)
Offset(p, i) ==
    IF i = 1 THEN 0 ELSE Offset(p, i - 1) + Len(Contribution(p, i - 1))

\* C17: whatever the order in which the five calls settle, the combined
\* list holds the items of Google News, then ScienceDaily, then Medical News
\* Today, then PubMed, then OpenAlex, the items of each source in the order
\* the source returned them, and nothing else.
C17_FixedSourceOrder ==
    \A p \in MainProc :
        Aggregated(p) =>
            /\ Len(order[p]) = Cardinality(Sources)
            /\ Len(allItems[p]) = Offset(p, Cardinality(Sources) + 1)
            /\ \A i \in Sources :
                  \A k \in 1..Len(Contribution(p, i)) :
                      allItems[p][Offset(p, i) + k] = AdapterItems(i, world)[k]

\* C17 witness: the five sources settled in the reverse of their order, all
\* with items, and the list begins with Google News and ends with OpenAlex
C17_Witness ==
    /\ Aggregated(1)
    /\ world = WorldRich
    /\ order[1] = <<5, 4, 3, 2, 1>>
    /\ \A i \in Sources : status[1][i] = "ok"
    /\ allItems[1][1].origin = "google-news"
    /\ allItems[1][2].origin = "google-news"
    /\ allItems[1][Len(allItems[1])].origin = "openalex"

\* the call of source i by invocation p has not settled
Pending(p, i) == status[p][i] \in {"fetching", "fetching2"}

\* invocation p has not gone past the Aggregator: nothing is flattened or
\* filtered, nothing asked of the service, nothing written
Suspended(p) ==
    /\ pc[p] = "aggregate"
    /\ allItems[p] = <<>> /\ newItems[p] = <<>> /\ batch[p] = <<>>
    /\ apiCalls[p] = 0 /\ writes[p] = 0
    /\ response[p] = NoResponse
    /\ file = fileAtStart[p]

\* C18: in a scouted run the pre-filter, the summarization request and the
\* write never start while one of the five calls is pending, and once all
\* five have settled the run does go on.
C18_ProceedsWhenAllSettled ==
    /\ [](\A p \in MainProc :
            (pc[p] # "idle" /\ \E i \in Sources : Pending(p, i)) => Suspended(p))
    /\ \A p \in MainProc :
          (pc[p] = "aggregate" /\ \A i \in Sources : ~Pending(p, i))
              ~> (pc[p] \in {"awaitSummary", "done", "fatal"})

\* C18 witness: four calls settled, one of them failed, and the run still
\* waits for the second request of PubMed
C18_Witness ==
    /\ Suspended(1)
    /\ status[1][PubMed] = "fetching2"
    /\ status[1][1] = "ok" /\ status[1][2] = "failed"
    /\ status[1][3] = "ok" /\ status[1][5] = "ok"
    /\ world = WorldRich
    /\ args[1].auto /\ apiKey[1]

\* entry m of the corpus is the entry for candidate i of the batch sent by
\* invocation p: it carries the candidate's link as its sourceUrl (the
\* request asks for the link to be copied as it is)
EntryFor(p, m, i) == file.doc[m].sourceUrl = batch[p][i].link

\* C19: within one auto run ids follow the candidate order: if candidate i
\* precedes candidate j in the batch sent and both were inserted, the entry
\* for i has the smaller id.
C19_IdsFollowCandidateOrder ==
    \A p \in MainProc :
        (IsAutoRun(p) /\ Merged(p)) =>
            \A i, j \in 1..Len(batch[p]) :
                \A m, n \in 1..added[p] :
                    (/\ i < j
                     /\ batch[p][i].link # batch[p][j].link
                     /\ EntryFor(p, m, i)
                     /\ EntryFor(p, n, j))
                    => IdNumber(file.doc[m].id) < IdNumber(file.doc[n].id)


\* invocation p sent a batch to the summarization service
Sent(p) == pc[p] # "idle" /\ apiCalls[p] >= 1

\* C20: no candidate that duplicates an entry of the pre-run corpus, by
\* normalized link or by normalized title, is sent to the summarization
\* service: every candidate of the batch sent is one isDuplicate rejects
\* against the pre-run corpus, and the batch is taken from the fetched
\* candidates.
C20_NoDuplicateIsSent ==
    \A p \in MainProc :
        Sent(p) =>
            \A k \in 1..Len(batch[p]) :
                /\ ~isDuplicate(PreRun(p), batch[p][k].link, batch[p][k].title)
                /\ \E n \in 1..Len(allItems[p]) : allItems[p][n] = batch[p][k]

\* C20 witness: two candidates were fetched; the first has the title of an
\* entry of the pre-run corpus under another link and was held back, the
\* second was sent
C20_Witness ==
    /\ Sent(1)
    /\ Len(allItems[1]) = 2
    /\ Len(batch[1]) = 1
    /\ batch[1][1] = allItems[1][2]
    /\ isDuplicate(PreRun(1), allItems[1][1].link, allItems[1][1].title)
    /\ \A i \in 1..Len(PreRun(1)) :
          NormalizeUrl(OrEmpty(PreRun(1)[i].sourceUrl)) # NormalizeUrl(allItems[1][1].link)


\* the origin identifier of source i
OriginOf(i) ==
    CASE i = 1 -> "google-news"
      [] i = 2 -> "sciencedaily"
      [] i = 3 -> "medicalnewstoday"
      [] i = 4 -> "pubmed"
      [] i = 5 -> "openalex"

\* how many items the external source i serves in world w
Served(i, w) ==
    CASE i \in 1..3 -> Len(w.rss[i])
      [] i = 4 -> Len(w.idlist)
      [] i = 5 -> Len(w.works)

\* C21: every source adapter gives at most MAX_PER_SOURCE (2) candidates per
\* run, each tagged with the origin identifier of that adapter, whatever the
\* external source serves; so the combined candidate list of a run has at
\* most 10 items.
C21_AtMostTwoPerSource ==
    \A p \in MainProc :
        /\ \A i \in Sources :
              /\ Len(results[p][i]) <= 2
              /\ \A k \in 1..Len(results[p][i]) : results[p][i][k].origin = OriginOf(i)
        /\ Len(allItems[p]) <= 10
        /\ Len(Flat(results[p])) <= 10

\* C21 witness: four of the external sources served three items, each
\* adapter gave two and the combined list has ten
C21_Witness ==
    /\ \A i \in Sources \ {2} : Served(i, world) = 3
    /\ \A i \in Sources : Len(results[1][i]) = 2
    /\ Len(allItems[1]) = 10


\* source i of invocation p has settled
SettledSource(p, i) == status[p][i] \in {"ok", "failed"}

\* C22: each source adapter is invoked once per scouted run and a failed
\* adapter call is not retried; the summarization service is requested at
\* most once per run and a failed request is not retried.  In every step:
\* requests to the sources are issued only at the start of a run (one per
\* source) and for the second stage of PubMed (one, after its search
\* succeeded); a source that has settled, failed or not, stays as it settled
\* until the run is over; the request to the service is issued only when
\* none was issued in this run, and the step that receives its reply,
\* whatever the reply, ends the run without another request.
C22_NoRetries ==
    [][\A p \in MainProc :
          /\ fetchCalls'[p] > fetchCalls[p] =>
                \/ /\ pc[p] = "idle"
                   /\ fetchCalls'[p] = Cardinality(Sources)
                   /\ \A i \in Sources : status'[p][i] = "fetching"
                \/ /\ status[p][PubMed] = "fetching"
                   /\ status'[p][PubMed] = "fetching2"
                   /\ fetchCalls'[p] = fetchCalls[p] + 1
          /\ \A i \in Sources :
                (SettledSource(p, i) /\ pc'[p] # "idle") =>
                    /\ status'[p][i] = status[p][i]
                    /\ results'[p][i] = results[p][i]
          /\ apiCalls'[p] > apiCalls[p] =>
                (apiCalls[p] = 0 /\ apiCalls'[p] = 1 /\ pc'[p] = "awaitSummary")
          /\ (pc[p] = "awaitSummary" /\ pc'[p] # pc[p]) =>
                (pc'[p] \in {"done", "fatal"} /\ apiCalls'[p] = apiCalls[p])
          /\ (pc[p] = "fatal" /\ pc'[p] # pc[p]) => pc'[p] = "idle"
      ]_vars

\* C22 witness: a run in which the first source failed, PubMed made both its
\* requests and the request to the service failed: six requests to the
\* sources, one to the service, and the run is over
C22_Witness ==
    /\ pc[1] = "fatal"
    /\ status[1][1] = "failed"
    /\ response[1].kind = "network"
    /\ fetchCalls[1] = Cardinality(Sources) + 1
    /\ apiCalls[1] = 1


\* invocation p is a scouted run under way or over
Scouting(p) == pc[p] # "idle" /\ ~IsApply(args[p])

\* the link of the PubMed record id
PubMedLink(id) == <<"p", id, "/">>

\* C23: the PubMed adapter issues the search call first and the summary
\* call only after the search succeeded; the summary resolves at most 2 of
\* the identifiers returned (the first two); a failure of either stage fails
\* the adapter as a whole, with no candidate; an empty identifier list gives
\* an empty result without a second call.
C23_PubMedTwoStages ==
    /\ [](\A p \in MainProc :
            Scouting(p) =>
              LET st    == status[p][PubMed]
                  calls == fetchCalls[p] - Cardinality(Sources)
                  ids   == world.idlist
              IN  /\ calls \in {0, 1}
                  /\ calls = 1 => ids # <<>>
                  /\ st = "fetching" => (calls = 0 /\ results[p][PubMed] = <<>>)
                  /\ st = "fetching2" => (calls = 1 /\ results[p][PubMed] = <<>>)
                  /\ st = "failed" => results[p][PubMed] = <<>>
                  /\ st = "ok" =>
                        /\ calls = (IF ids = <<>> THEN 0 ELSE 1)
                        /\ ids = <<>> => results[p][PubMed] = <<>>
                        /\ Len(results[p][PubMed]) <= 2
                        /\ \A k \in 1..Len(results[p][PubMed]) :
                              \E n \in 1..Len(ids) :
                                  /\ n <= 2
                                  /\ results[p][PubMed][k].link = PubMedLink(ids[n])
                                  /\ world.result[ids[n]] # Undefined)
    /\ [][\A p \in MainProc :
            (status'[p][PubMed] = "fetching2" /\ status[p][PubMed] # "fetching2") =>
                /\ status[p][PubMed] = "fetching"
                /\ world.idlist # <<>>
                /\ fetchCalls'[p] = fetchCalls[p] + 1
         ]_vars

\* C23 witness: the search returned three identifiers, the summary was
\* requested and the adapter gave the records of the first two
C23_Witness ==
    /\ status[1][PubMed] = "ok"
    /\ Len(world.idlist) = 3
    /\ fetchCalls[1] = Cardinality(Sources) + 1
    /\ Len(results[1][PubMed]) = 2
    /\ results[1][PubMed][2].link = PubMedLink(world.idlist[2])


(***************************************************************************)
(* Two invocations overlapping in time on the same document: nothing in    *)
(* the script keeps a second process from starting while the first awaits  *)
(* its sources or the service.  Each process runs main as above, as an     *)
(* auto run with the credential in which every source answers; the second  *)
(* process may also be an apply run.  The two processes being alike, the   *)
(* first is the one that starts first when both are auto runs.  The        *)
(* processes are kept after they end, so that what each did can be         *)
(* compared.  What the sources serve does not matter to the race: the      *)
(* worlds are the two in which they serve few items.                       *)
(***************************************************************************)
InitOverlap ==
    /\ file \in InitDocs
    /\ world \in {WorldQuiet, WorldPair}
    /\ runs = 0
    /\ prev = NoPrev
    /\ InitRun
    /\ InitDup
    /\ InitHist(FALSE)

StartAuto(p) == StartScout(p) /\ args'[p] = Args(TRUE, FALSE, NoArg) /\ apiKey'[p]

NextOverlap ==
    \E p \in Procs :
        \/ p = 2 /\ RunApply(p)
        \/ (p = 2 => pc[1] # "idle") /\ StartAuto(p)
        \/ \E i \in Sources : SourceReturns(p, i)
        \/ PubMedSearchReturns(p)
        \/ Aggregate(p)
        \/ SummarizeReply(p)

SpecOverlap == InitOverlap /\ [][NextOverlap]_vars

\* entry e is in the corpus, by title and sourceUrl
Holds(corpus, e) ==
    \E n \in 1..Len(corpus) :
        corpus[n].title = e.title /\ corpus[n].sourceUrl = e.sourceUrl

\* C24: with two invocations overlapping on the same document, each writes
\* the whole document computed from the corpus it read at its own start:
\* the document after the write of p is the corpus p read with the entries p
\* inserted before it, numbered from the largest id p read, whatever the
\* other invocation wrote in between.  So a lost update is reachable and the
\* two runs can give the same id to different entries (the witness).
C24_OverwritesFromOwnRead ==
    [][\A p \in Procs :
          writes'[p] > writes[p] =>
              /\ file'.ok
              /\ file'.doc = existing'[p]
              /\ Len(file'.doc) = Len(PreRun(p)') + added'[p]
              /\ SubSeq(file'.doc, added'[p] + 1, Len(file'.doc)) = PreRun(p)'
              /\ \A k \in 1..added'[p] :
                    file'.doc[k].id = String(LargestId(PreRun(p)') + added'[p] - k + 1)
      ]_vars

\* C24 witness: two auto runs read the same document, both inserted and
\* both wrote; an entry the first inserted is not in the final document, and
\* the second gave its id to a different entry
C24_Witness ==
    /\ pc[1] = "done" /\ pc[2] = "done"
    /\ args[1].auto /\ args[2].auto
    /\ writes[1] = 1 /\ writes[2] = 1
    /\ fileAtStart[1] = fileAtStart[2]
    /\ \E m \in 1..added[1] :
          /\ ~Holds(file.doc, existing[1][m])
          /\ \E n \in 1..added[2] :
                /\ existing[2][n].id = existing[1][m].id
                /\ existing[2][n].title # existing[1][m].title
                /\ existing[2][n].sourceUrl # existing[1][m].sourceUrl
                /\ Holds(file.doc, existing[2][n])


\* invocation p found no document it could read and parse
StartedBlind(p) == pc[p] # "idle" /\ ~fileAtStart[p].ok

\* C25: when the document cannot be read or parsed at the start of a run,
\* loadExisting gives the empty corpus and the run goes on; if the run then
\* writes, in either mode, the document holds only the entries this run
\* inserted, newest first with ids counting from 1, and no error is
\* reported.
C25_UnreadableDocumentIsEmptyCorpus ==
    \A p \in MainProc :
        StartedBlind(p) =>
            /\ pc[p] \in {"aggregate", "awaitSummary"} =>
                  (existing[p] = <<>> /\ error[p] = "none")
            /\ writes[p] = 1 =>
                  /\ pc[p] = "done" /\ error[p] = "none"
                  /\ file.ok
                  /\ file.doc = existing[p]
                  /\ Len(file.doc) = added[p]
                  /\ FromBatch(p, added[p], file.doc)
                  /\ \A k \in 1..added[p] : file.doc[k].id = String(added[p] - k + 1)

\* C25 witness: an auto run that found no readable document inserted two
\* entries and wrote a document of exactly these, with ids 2 and 1
C25_Witness ==
    /\ StartedBlind(1)
    /\ args[1].auto
    /\ Merged(1)
    /\ added[1] = 2
    /\ Len(file.doc) = 2
    /\ file.doc[1].id = String(2)
    /\ file.doc[2].id = String(1)


\* C26: a scouted run, auto or dry, in which the pre-filter leaves no new
\* candidate ends normally (exit status 0) at that point: the summarization
\* service is not called, the credential is not checked (its absence raises
\* no error) and the document is not written.
C26_NothingNewEndsQuietly ==
    \A p \in MainProc :
        (Scouting(p) /\ Aggregated(p) /\ newItems[p] = <<>>) =>
            /\ pc[p] = "done"
            /\ error[p] = "none"
            /\ apiCalls[p] = 0
            /\ response[p] = NoResponse
            /\ writes[p] = 0
            /\ file = fileAtStart[p]

\* C26 witness: an auto run without the credential fetched candidates that
\* are all in the corpus already; it ended with exit status 0
C26_Witness ==
    /\ IsAutoRun(1)
    /\ ~apiKey[1]
    /\ Aggregated(1)
    /\ allItems[1] # <<>>
    /\ newItems[1] = <<>>
    /\ pc[1] = "done"


(***************************************************************************)
(* One run of the script and then, when it was an apply run that wrote,    *)
(* the same command line once more in a second process.  Both processes    *)
(* are kept after they end.                                                *)
(***************************************************************************)
RepeatApply ==
    /\ pc[1] = "done"
    /\ IsApply(args[1])
    /\ RunApply(2)
    /\ args'[2] = args[1]

NextRepeat ==
    \/ \E p \in MainProc :
          \/ RunApply(p)
          \/ StartScout(p)
          \/ \E i \in Sources : SourceFails(p, i)
          \/ \E i \in Sources : SourceReturns(p, i)
          \/ PubMedSearchReturns(p)
          \/ Aggregate(p)
          \/ SummarizeReply(p)
    \/ RepeatApply

SpecRepeat == Init /\ [][NextRepeat]_vars

\* every record of the batch invocation p merged is a duplicate of an entry
\* of the corpus p started from (so it is if the batch is empty)
AllDuplicates(p) ==
    \A k \in 1..Len(articles[p]) :
        \E n \in 1..Len(PreRun(p)) : SameKey(PreRun(p)[n], articles[p][k])

\* C27: when every record of the accepted batch is a duplicate, or the
\* batch is empty, a run that writes reports 0 inserted and the corpus it
\* persists is, entry by entry, the corpus it started from; and an apply run
\* repeated with the same batch inserts nothing the second time and leaves
\* the entries as the first run wrote them.
C27_NothingToInsertIsNoOp ==
    /\ \A p \in Procs :
          (pc[p] = "done" /\ writes[p] = 1 /\ AllDuplicates(p)) =>
              /\ added[p] = 0
              /\ existing[p] = PreRun(p)
              /\ file = Doc(PreRun(p))
    /\ (pc[2] = "done" /\ writes[2] = 1) =>
          /\ fileAtStart[2] = Doc(existing[1])
          /\ articles[2] = articles[1]
          /\ added[2] = 0
          /\ file = fileAtStart[2]

\* C27 witness: an apply run inserted two entries; the same batch applied
\* again inserted nothing and wrote the same entries
C27_Witness ==
    /\ pc[1] = "done" /\ pc[2] = "done"
    /\ added[1] = 2
    /\ writes[2] = 1
    /\ added[2] = 0
    /\ file = Doc(existing[1])

====
